---- MODULE Spec2Model ----
(***************************************************************************)
(* A model of core_cpp/src/matrix_ops.cpp: the 3x3 matrix product, the     *)
(* LU-based inverse with its determinant guard, the SVD-based homography   *)
(* solve with its conditioning guard, and the 4-lane batch point transform *)
(* with its scalar tail.                                                   *)
(*                                                                         *)
(* A float is modelled as NaN, +Inf, -Inf or a finite value                *)
(* (n / d) * 10^e kept in lowest terms.  Arithmetic on finite values is    *)
(* exact (the rounding of the last bit of a float is not modelled), except *)
(* that a result above FLT_MAX becomes an infinity, a result below the     *)
(* smallest subnormal becomes zero, and a sum of two values more than      *)
(* AbsorbGap decimal exponents apart is the larger one.  The sign of zero  *)
(* is not modelled.                                                        *)
(***************************************************************************)
EXTENDS Integers, Sequences, FiniteSets, TLC

(***************************************************************************)
(* Float values                                                            *)
(***************************************************************************)
NaN == [k |-> "nan", n |-> 0, d |-> 1, e |-> 0]
PInf == [k |-> "inf", n |-> 1, d |-> 1, e |-> 0]
NInf == [k |-> "inf", n |-> -1, d |-> 1, e |-> 0]
Zero == [k |-> "fin", n |-> 0, d |-> 1, e |-> 0]

IAbs(i) == IF i < 0 THEN -i ELSE i
ISign(i) == IF i < 0 THEN -1 ELSE IF i > 0 THEN 1 ELSE 0

RECURSIVE Gcd(_, _)
Gcd(a, b) == IF b = 0 THEN a ELSE Gcd(b, a % b)

RECURSIVE Pow10(_)
Pow10(k) == IF k <= 0 THEN 1 ELSE 10 * Pow10(k - 1)

RECURSIVE Digits(_)
Digits(i) == IF i < 10 THEN 1 ELSE 1 + Digits(i \div 10)

\* the factors of ten of i (i # 0) moved into a decimal exponent
RECURSIVE Strip10(_, _)
Strip10(i, ex) == IF i % 10 = 0 THEN Strip10(i \div 10, ex + 1) ELSE <<i, ex>>

\* a denominator's factors of two and five moved into the decimal exponent,
\* so that each value has one representation: <<numerator, denominator, exponent>>
RECURSIVE Canon(_, _, _)
Canon(an, d, ex) ==
    IF d % 2 = 0 THEN Canon(an * 5, d \div 2, ex - 1)
    ELSE IF d % 5 = 0 THEN Canon(an * 2, d \div 5, ex - 1)
    ELSE <<an, d, ex>>

\* std::numeric_limits<float>::max() is 3.4028235e38, kept to five digits
FltMax == <<34028, 34>>
\* the smallest positive subnormal float is 1.4e-45
FltDenormMin == <<14, -46>>
\* a float carries 24 significant bits, less than eight decimal digits
AbsorbGap == Digits(16777216) - 1

\* whether an * 10^ex / d (an, d > 0) is greater than m * 10^mx
MagGreater(an, d, ex, m, mx) ==
    LET o == Digits(an) - Digits(d) + ex
        om == Digits(m) + mx
        sh == ex - mx
    IN  IF o - 1 >= om THEN TRUE
        ELSE IF o + 1 < om THEN FALSE
        ELSE IF sh >= 0 THEN an * Pow10(sh) > m * d
        ELSE an > m * d * Pow10(-sh)

\* whether an * 10^ex / d (an, d > 0) is less than m * 10^mx
MagLess(an, d, ex, m, mx) ==
    LET o == Digits(an) - Digits(d) + ex
        om == Digits(m) + mx
        sh == ex - mx
    IN  IF o + 1 < om THEN TRUE
        ELSE IF o - 1 >= om THEN FALSE
        ELSE IF sh >= 0 THEN an * Pow10(sh) < m * d
        ELSE an < m * d * Pow10(-sh)

\* the float of value (num / den) * 10^ex, den > 0
MkFloat(num, den, ex) ==
    IF num = 0 THEN Zero
    ELSE LET g == Gcd(IAbs(num), den)
             sn == Strip10(IAbs(num) \div g, ex)
             sd == Strip10(den \div g, 0)
             c == Canon(sn[1], sd[1], sn[2] - sd[2])
             an == c[1]
             dd == c[2]
             ee == c[3]
         IN  IF MagGreater(an, dd, ee, FltMax[1], FltMax[2])
             THEN (IF num < 0 THEN NInf ELSE PInf)
             ELSE IF MagLess(an, dd, ee, FltDenormMin[1], FltDenormMin[2]) THEN Zero
             ELSE [k |-> "fin", n |-> ISign(num) * an, d |-> dd, e |-> ee]

F(i) == MkFloat(i, 1, 0)
Sci(m, ex) == MkFloat(m, 1, ex)

IsNaN(a) == a.k = "nan"
IsInf(a) == a.k = "inf"
IsFinite(a) == a.k = "fin"
FSign(a) == ISign(a.n)

FNeg(a) == IF a.k = "nan" THEN NaN ELSE [a EXCEPT !.n = -a.n]
FAbs(a) == IF a.k = "nan" THEN NaN ELSE [a EXCEPT !.n = IAbs(a.n)]

FMul(a, b) ==
    IF a.k = "nan" \/ b.k = "nan" THEN NaN
    ELSE IF a.k = "inf" \/ b.k = "inf"
         THEN (IF a.n = 0 \/ b.n = 0 THEN NaN
               ELSE IF FSign(a) * FSign(b) < 0 THEN NInf ELSE PInf)
    ELSE MkFloat(a.n * b.n, a.d * b.d, a.e + b.e)

FDiv(a, b) ==
    IF a.k = "nan" \/ b.k = "nan" THEN NaN
    ELSE IF a.k = "inf"
         THEN (IF b.k = "inf" THEN NaN
               ELSE IF FSign(a) * FSign(b) < 0 THEN NInf ELSE PInf)
    ELSE IF b.k = "inf" THEN Zero
    ELSE IF b.n = 0
         THEN (IF a.n = 0 THEN NaN ELSE IF a.n < 0 THEN NInf ELSE PInf)
    ELSE MkFloat(ISign(b.n) * a.n * b.d, a.d * IAbs(b.n), a.e - b.e)

FAdd(a, b) ==
    IF a.k = "nan" \/ b.k = "nan" THEN NaN
    ELSE IF a.k = "inf"
         THEN (IF b.k = "inf" /\ b.n # a.n THEN NaN ELSE a)
    ELSE IF b.k = "inf" THEN b
    ELSE IF a.n = 0 THEN b
    ELSE IF b.n = 0 THEN a
    ELSE IF a.e - b.e > AbsorbGap THEN a
    ELSE IF b.e - a.e > AbsorbGap THEN b
    ELSE LET ex == IF a.e < b.e THEN a.e ELSE b.e
             an == a.n * Pow10(a.e - ex)
             bn == b.n * Pow10(b.e - ex)
         IN  MkFloat(an * b.d + bn * a.d, a.d * b.d, ex)

FSub(a, b) == FAdd(a, FNeg(b))

\* the comparisons of IEEE floats: every comparison with a NaN is false
FLt(a, b) ==
    IF a.k = "nan" \/ b.k = "nan" THEN FALSE
    ELSE IF a = b THEN FALSE
    ELSE FSign(FSub(a, b)) < 0

FGe(a, b) ==
    IF a.k = "nan" \/ b.k = "nan" THEN FALSE
    ELSE IF a = b THEN TRUE
    ELSE FSign(FSub(a, b)) > 0

FGt(a, b) == FLt(b, a)

(***************************************************************************)
(* Program constants and types                                             *)
(***************************************************************************)
\* const float MATRIX_INVERSE_EPSILON = 1e-7f
MATRIX_INVERSE_EPSILON == Sci(1, -7)
\* const float MATRIX_SVD_EPSILON = 1e-6f
MATRIX_SVD_EPSILON == Sci(1, -6)

\* Map<const Matrix3f>: nine floats in column-major order; M(r, c) is float 3c + r
Coeff(m, r, c) == m[3 * c + r + 1]

\* a matrix given by its rows
Rows3(a, b, c, d, e, f, g, h, i) == <<a, d, g, b, e, h, c, f, i>>

Identity3 == Rows3(F(1), F(0), F(0), F(0), F(1), F(0), F(0), F(0), F(1))

\* the % of C++ on int, which truncates towards zero
CRem(a, b) == IF a >= 0 THEN a % b ELSE -((-a) % b)

(***************************************************************************)
(* 128-bit vectors of four float lanes (wasm_simd128.h)                    *)
(***************************************************************************)
Lanes == 1..4
wasm_f32x4_splat(a) == [l \in Lanes |-> a]
wasm_f32x4_mul(a, b) == [l \in Lanes |-> FMul(a[l], b[l])]
wasm_f32x4_add(a, b) == [l \in Lanes |-> FAdd(a[l], b[l])]
wasm_f32x4_div(a, b) == [l \in Lanes |-> FDiv(a[l], b[l])]
wasm_f32x4_abs(a) == [l \in Lanes |-> FAbs(a[l])]
\* a lane of the result is all ones (TRUE) where a >= b and all zeros otherwise
wasm_f32x4_ge(a, b) == [l \in Lanes |-> FGe(a[l], b[l])]
wasm_f32x4_gt(a, b) == [l \in Lanes |-> FGt(a[l], b[l])]
\* with a mask of whole lanes, lane l is a[l] where the mask is set, else b[l]
wasm_v128_bitselect(a, b, mask) == [l \in Lanes |-> IF mask[l] THEN a[l] ELSE b[l]]
\* lanes 0..3 name a, lanes 4..7 name b
wasm_i32x4_shuffle(a, b, c0, c1, c2, c3) ==
    LET ab == [j \in 0..7 |-> IF j < 4 THEN a[j + 1] ELSE b[j - 3]]
    IN  [l \in Lanes |-> ab[<<c0, c1, c2, c3>>[l]]]

(***************************************************************************)
(* transform_points_batch                                                  *)
(***************************************************************************)
VARIABLES
    pc,          \* the position in the function under study
    M,           \* the 3x3 matrix behind matrix_ptr
    mem,         \* linear memory, as floats
    pts_in,      \* the float index of points_in_ptr in mem
    pts_out,     \* the float index of points_out_ptr in mem
    num_points,
    i,           \* the loop counter shared by both loops
    regs,        \* the floats loaded by the current iteration
    in0,         \* history: the input floats at the call
    wcount,      \* history: how often each float of mem was stored to
    rcount,      \* history: how often each float of mem was loaded
    path,        \* history: which loop handled each point
    steps,       \* history: the steps taken so far
    inv,         \* invert_matrix: its argument, output and result
    hom          \* solve_homography_svd: its arguments, output and result

vars == <<pc, M, mem, pts_in, pts_out, num_points, i, regs, in0, wcount, rcount,
          path, steps, inv, hom>>

\* the largest batch
MaxN == 8
\* floats of padding after each buffer
Pad == 2
BufLen == 2 * MaxN + Pad
MemLen == 2 * BufLen
Addr == 0..(MemLen - 1)

\* what an untouched float of memory holds
Untouched == F(77)

num_points_simd_wrong(n) == n - CRem(n, 4) + 4
\* const int num_points_simd = num_points - (num_points % 4)
num_points_simd(n) == n - CRem(n, 4)

ValidWMaskGt(w_abs) == wasm_f32x4_gt(w_abs, wasm_f32x4_splat(MATRIX_SVD_EPSILON))
\* v128_t valid_w_mask = wasm_f32x4_ge(w_abs, epsilon_v)
ValidWMask(w_abs) == wasm_f32x4_ge(w_abs, wasm_f32x4_splat(MATRIX_SVD_EPSILON))

StoreShuffleWrong(x_final, y_final) ==
    <<wasm_i32x4_shuffle(x_final, y_final, 0, 1, 4, 5),
      wasm_i32x4_shuffle(x_final, y_final, 2, 3, 6, 7)>>
\* out_xy12 and out_xy34: the results back in x, y, x, y order
StoreShuffle(x_final, y_final) ==
    <<wasm_i32x4_shuffle(x_final, y_final, 0, 4, 1, 5),
      wasm_i32x4_shuffle(x_final, y_final, 2, 6, 3, 7)>>

\* the body of the SIMD loop between its loads and its stores: from the two
\* loaded vectors to the two vectors stored
SimdBody(m, points_xy12, points_xy34) ==
    LET m0_v == wasm_f32x4_splat(Coeff(m, 0, 0))
        m1_v == wasm_f32x4_splat(Coeff(m, 1, 0))
        m2_v == wasm_f32x4_splat(Coeff(m, 2, 0))
        m3_v == wasm_f32x4_splat(Coeff(m, 0, 1))
        m4_v == wasm_f32x4_splat(Coeff(m, 1, 1))
        m5_v == wasm_f32x4_splat(Coeff(m, 2, 1))
        m6_v == wasm_f32x4_splat(Coeff(m, 0, 2))
        m7_v == wasm_f32x4_splat(Coeff(m, 1, 2))
        m8_v == wasm_f32x4_splat(Coeff(m, 2, 2))
        one_v == wasm_f32x4_splat(F(1))
        nan_v == wasm_f32x4_splat(NaN)
        x1234 == wasm_i32x4_shuffle(points_xy12, points_xy34, 0, 2, 4, 6)
        y1234 == wasm_i32x4_shuffle(points_xy12, points_xy34, 1, 3, 5, 7)
        x_p1 == wasm_f32x4_mul(m0_v, x1234)
        x_p2 == wasm_f32x4_mul(m3_v, y1234)
        x_unscaled == wasm_f32x4_add(wasm_f32x4_add(x_p1, x_p2), m6_v)
        y_p1 == wasm_f32x4_mul(m1_v, x1234)
        y_p2 == wasm_f32x4_mul(m4_v, y1234)
        y_unscaled == wasm_f32x4_add(wasm_f32x4_add(y_p1, y_p2), m7_v)
        w_p1 == wasm_f32x4_mul(m2_v, x1234)
        w_p2 == wasm_f32x4_mul(m5_v, y1234)
        w == wasm_f32x4_add(wasm_f32x4_add(w_p1, w_p2), m8_v)
        w_abs == wasm_f32x4_abs(w)
        valid_w_mask == ValidWMask(w_abs)
        inv_w == wasm_f32x4_div(one_v, w)
        x_scaled == wasm_f32x4_mul(x_unscaled, inv_w)
        y_scaled == wasm_f32x4_mul(y_unscaled, inv_w)
        x_final == wasm_v128_bitselect(x_scaled, nan_v, valid_w_mask)
        y_final == wasm_v128_bitselect(y_scaled, nan_v, valid_w_mask)
    IN  StoreShuffle(x_final, y_final)

ScalarInvalidLe(W) == ~FGt(FAbs(W), MATRIX_SVD_EPSILON) /\ ~IsNaN(W)
\* if (std::abs(W) < MATRIX_SVD_EPSILON)
ScalarInvalid(W) == FLt(FAbs(W), MATRIX_SVD_EPSILON)

\* the body of the scalar loop between its loads and its stores
ScalarBody(m, x_in, y_in) ==
    LET m0_s == Coeff(m, 0, 0)
        m1_s == Coeff(m, 1, 0)
        m2_s == Coeff(m, 2, 0)
        m3_s == Coeff(m, 0, 1)
        m4_s == Coeff(m, 1, 1)
        m5_s == Coeff(m, 2, 1)
        m6_s == Coeff(m, 0, 2)
        m7_s == Coeff(m, 1, 2)
        m8_s == Coeff(m, 2, 2)
        X == FAdd(FAdd(FMul(m0_s, x_in), FMul(m3_s, y_in)), m6_s)
        Y == FAdd(FAdd(FMul(m1_s, x_in), FMul(m4_s, y_in)), m7_s)
        W == FAdd(FAdd(FMul(m2_s, x_in), FMul(m5_s, y_in)), m8_s)
    IN  IF ScalarInvalid(W)
        THEN <<NaN, NaN>>
        ELSE LET invW == FDiv(F(1), W)
             IN  <<FMul(X, invW), FMul(Y, invW)>>

\* memory after storing the floats vals at float index base and after it
Stored(memory, base, vals) ==
    [a \in Addr |-> IF a >= base /\ a < base + Len(vals)
                    THEN vals[a - base + 1] ELSE memory[a]]

Counted(count, base, len) ==
    [a \in Addr |-> IF a >= base /\ a < base + len THEN count[a] + 1 ELSE count[a]]

\* i < num_points_simd, the condition of the SIMD loop
SimdCond == i < num_points_simd(num_points)
\* i < num_points, the condition of the if and of the scalar loop it holds
ScalarCond == i < num_points

\* for (; i < num_points_simd; i += 4): the two wasm_v128_load of an iteration
SimdLoad ==
    /\ pc = "simd"
    /\ SimdCond
    /\ LET base_idx == i * 2
       IN  /\ regs' = [j \in 1..8 |-> mem[pts_in + base_idx + j - 1]]
           /\ rcount' = Counted(rcount, pts_in + base_idx, 8)
    /\ pc' = "simd_store"
    /\ steps' = steps + 1
    /\ UNCHANGED <<M, mem, pts_in, pts_out, num_points, i, in0, wcount, path, inv, hom>>

\* the eight floats of out_xy12 and out_xy34 in memory order
Concat(r) == [j \in 1..8 |-> IF j <= 4 THEN r[1][j] ELSE r[2][j - 4]]

\* the arithmetic of an iteration, its two wasm_v128_store, and i += 4
SimdStore ==
    /\ pc = "simd_store"
    /\ mem' = Stored(mem, pts_out + i * 2,
                     Concat(SimdBody(M, [l \in Lanes |-> regs[l]],
                                        [l \in Lanes |-> regs[l + 4]])))
    /\ wcount' = Counted(wcount, pts_out + i * 2, 8)
    /\ path' = [p \in DOMAIN path |-> IF p >= i /\ p < i + 4 THEN "simd" ELSE path[p]]
    /\ i' = i + 4
    /\ pc' = "simd"
    /\ regs' = <<>>
    /\ steps' = steps + 1
    /\ UNCHANGED <<M, pts_in, pts_out, num_points, in0, rcount, inv, hom>>

\* the SIMD loop's condition fails: on to if (i < num_points)
SimdExit ==
    /\ pc = "simd"
    /\ ~SimdCond
    /\ pc' = "scalar"
    /\ steps' = steps + 1
    /\ UNCHANGED <<M, mem, pts_in, pts_out, num_points, i, regs, in0, wcount, rcount,
                   path, inv, hom>>

\* for (; i < num_points; ++i): the reads of pts_in[idx] and pts_in[idx + 1]
ScalarLoad ==
    /\ pc = "scalar"
    /\ ScalarCond
    /\ LET idx == i * 2
       IN  /\ regs' = <<mem[pts_in + idx], mem[pts_in + idx + 1]>>
           /\ rcount' = Counted(rcount, pts_in + idx, 2)
    /\ pc' = "scalar_store"
    /\ steps' = steps + 1
    /\ UNCHANGED <<M, mem, pts_in, pts_out, num_points, i, in0, wcount, path, inv, hom>>

\* the x coordinate is read again after pts_out[idx] was written
ScalarWritesRereading(memory) ==
    Stored(memory, pts_out + i * 2 + 1,
           <<ScalarBody(M, Stored(memory, pts_out + i * 2,
                                  <<ScalarBody(M, regs[1], regs[2])[1]>>)[pts_in + i * 2],
                        regs[2])[2]>>)
\* memory after the two writes pts_out[idx] and pts_out[idx + 1] of an iteration
ScalarWrites(memory) ==
    Stored(memory, pts_out + i * 2, ScalarBody(M, regs[1], regs[2]))

\* the arithmetic of an iteration, its two writes, and ++i
ScalarStore ==
    /\ pc = "scalar_store"
    /\ mem' = ScalarWrites(mem)
    /\ wcount' = Counted(wcount, pts_out + i * 2, 2)
    /\ path' = [p \in DOMAIN path |-> IF p = i THEN "scalar" ELSE path[p]]
    /\ i' = i + 1
    /\ pc' = "scalar"
    /\ regs' = <<>>
    /\ steps' = steps + 1
    /\ UNCHANGED <<M, pts_in, pts_out, num_points, in0, rcount, inv, hom>>

\* the scalar loop's condition fails (or the if around it): the function returns
ScalarExit ==
    /\ pc = "scalar"
    /\ ~ScalarCond
    /\ pc' = "done"
    /\ steps' = steps + 1
    /\ UNCHANGED <<M, mem, pts_in, pts_out, num_points, i, regs, in0, wcount, rcount,
                   path, inv, hom>>

TPNext ==
    \/ SimdLoad
    \/ SimdStore
    \/ SimdExit
    \/ ScalarLoad
    \/ ScalarStore
    \/ ScalarExit

(***************************************************************************)
(* The calls of transform_points_batch that are explored                   *)
(***************************************************************************)
\* the negative counts tried
NegN == 2

\* the coordinates a point of a batch is drawn from (finite floats)
PointSet == {<<F(1), F(2)>>, <<F(3), F(5)>>}

\* W = x - 1: zero for the point (1, 2)
MatProjective == Rows3(F(2), F(0), F(1), F(0), F(3), F(-1), F(1), F(0), F(-1))
\* W = 1e-6 x: exactly the threshold for the point (1, 2)
MatThreshold == Rows3(F(1), F(0), F(0), F(0), F(1), F(0), Sci(1, -6), F(0), F(0))
\* W = -5e-7 x: below the threshold for (1, 2), above it for (3, 5)
MatTiny == Rows3(F(1), F(0), F(0), F(0), F(1), F(0), Sci(-5, -7), F(0), F(0))
\* W = x: a quotient by three
MatThird == Rows3(F(1), F(2), F(3), F(4), F(5), F(6), F(1), F(0), F(0))
\* W is NaN
MatNaN == Rows3(F(1), F(0), F(0), F(0), F(1), F(0), F(0), F(0), NaN)
\* W is infinite, and so is Y
MatInf == Rows3(F(1), F(0), F(0), F(0), F(1), NInf, F(0), F(0), PInf)
\* W = 2e38 x overflows for the point (3, 5)
MatHuge == Rows3(Sci(3, 38), F(0), F(0), F(0), F(1), F(0), Sci(2, 38), F(0), F(0))

TPMatrices == {Identity3, MatProjective, MatThreshold, MatTiny, MatThird, MatNaN,
               MatInf, MatHuge}

NoInv == [m |-> <<>>, lu |-> <<>>, det |-> Zero, out |-> <<>>, ret |-> -1, prod |-> <<>>]
NoHom == [A |-> <<>>, b |-> <<>>, svd |-> <<>>, x |-> <<>>, ret |-> "none"]

Max0(n) == IF n < 0 THEN 0 ELSE n

TPInit ==
    /\ pc = "simd"
    /\ M \in TPMatrices
    /\ num_points \in (-NegN)..MaxN
    /\ pts_in = 0
    /\ pts_out \in {0, BufLen}
    /\ \E pts \in [0..(Max0(num_points) - 1) -> PointSet] :
          /\ mem = [a \in Addr |-> IF a < 2 * Max0(num_points)
                                   THEN pts[a \div 2][(a % 2) + 1] ELSE Untouched]
          /\ in0 = [a \in 0..(2 * Max0(num_points) - 1) |-> pts[a \div 2][(a % 2) + 1]]
    /\ i = 0
    /\ regs = <<>>
    /\ wcount = [a \in Addr |-> 0]
    /\ rcount = [a \in Addr |-> 0]
    /\ path = [p \in 0..(Max0(num_points) - 1) |-> "none"]
    /\ steps = 0
    /\ inv = NoInv
    /\ hom = NoHom

SpecTransform == TPInit /\ [][TPNext]_vars

(***************************************************************************)
(* Eigen::FullPivLU<Matrix3f> (vendor/eigen-3.4.0), as invert_matrix uses  *)
(* it: the factorisation P A Q = L U with full pivoting, determinant() and *)
(* inverse()                                                               *)
(***************************************************************************)
Idx3 == 0..2
\* the positions of a 3x3 matrix in column-major order, the order of a visitor
ColMajor == <<<<0, 0>>, <<1, 0>>, <<2, 0>>, <<0, 1>>, <<1, 1>>, <<2, 1>>,
              <<0, 2>>, <<1, 2>>, <<2, 2>>>>
InCorner(k, pos) == pos[1] >= k /\ pos[2] >= k
CornerOrder(k) == SelectSeq(ColMajor, LAMBDA pos : InCorner(k, pos))

\* maxCoeff(&row, &col) over the scores |x|: the visitor starts at the first
\* position and moves to a later one only if value > res, so a NaN is kept only
\* as the first. (Each position chosen is bound before the scan goes on.)
RECURSIVE MaxScan(_, _, _, _)
MaxScan(lu, order, n, best) ==
    IF n > Len(order) THEN best
    ELSE CHOOSE res \in {MaxScan(lu, order, n + 1, nb) :
                           nb \in {IF FGt(FAbs(lu[order[n]]), FAbs(lu[best]))
                                   THEN order[n] ELSE best}} : TRUE

SwapIdx(j, a, b) == IF j = a THEN b ELSE IF j = b THEN a ELSE j

\* step k of computeInPlace with the pivot found at big: stop at a zero pivot,
\* else swap it to (k, k), divide the column below it and update the corner
LUStepAt(st, big) ==
    LET k == st.k
        score == FAbs(st.lu[big])
    IN  IF score = Zero
        THEN [st EXCEPT !.nonzero = k, !.k = 3]
        ELSE LET sw == [pos \in Idx3 \X Idx3 |->
                          st.lu[<<SwapIdx(pos[1], k, big[1]), SwapIdx(pos[2], k, big[2])>>]]
                 piv == sw[<<k, k>>]
                 low == [pos \in Idx3 \X Idx3 |->
                           IF pos[2] = k /\ pos[1] > k THEN FDiv(sw[pos], piv) ELSE sw[pos]]
                 upd == [pos \in Idx3 \X Idx3 |->
                           IF pos[1] > k /\ pos[2] > k
                           THEN FSub(low[pos], FMul(low[<<pos[1], k>>], low[<<k, pos[2]>>]))
                           ELSE low[pos]]
             IN  [lu |-> upd,
                  k |-> k + 1,
                  nonzero |-> st.nonzero,
                  maxpivot |-> IF FGt(score, st.maxpivot) THEN score ELSE st.maxpivot,
                  transpositions |-> st.transpositions + (IF big[1] # k THEN 1 ELSE 0)
                                                       + (IF big[2] # k THEN 1 ELSE 0),
                  rowOf |-> [j \in Idx3 |-> st.rowOf[SwapIdx(j, k, big[1])]],
                  colOf |-> [j \in Idx3 |-> st.colOf[SwapIdx(j, k, big[2])]]]

\* one step k of computeInPlace on the state st
LUStep(st) ==
    CHOOSE res \in {LUStepAt(st, big) :
                      big \in {MaxScan(st.lu, CornerOrder(st.k), 2, <<st.k, st.k>>)}} : TRUE

\* FullPivLU<Matrix3f> lu(m): the state in which the factorisation starts
FullPivLU(m) ==
    [lu |-> [pos \in Idx3 \X Idx3 |-> Coeff(m, pos[1], pos[2])],
     k |-> 0,
     nonzero |-> 3,
     maxpivot |-> Zero,
     transpositions |-> 0,
     rowOf |-> [j \in Idx3 |-> j],
     colOf |-> [j \in Idx3 |-> j]]

\* lu.determinant(): the sign of the permutations times the product of the diagonal
LUDeterminant(f) ==
    FMul(IF f.transpositions % 2 = 1 THEN F(-1) ELSE F(1),
         FMul(FMul(f.lu[<<0, 0>>], f.lu[<<1, 1>>]), f.lu[<<2, 2>>]))

\* NumTraits<float>::epsilon() * diagonalSize, the default threshold(): 3 * 1.1920929e-7
LUThreshold == Sci(357628, -12)

\* rank(): the pivots whose magnitude exceeds |maxpivot| * threshold()
LURank(f) ==
    LET limit == FMul(FAbs(f.maxpivot), LUThreshold)
    IN  Cardinality({j \in Idx3 : j < f.nonzero /\ FGt(FAbs(f.lu[<<j, j>>]), limit)})

\* triangularView<UnitLower>().solveInPlace(c): y[j] = c[j] - sum of L(j, t) y[t], t < j
\* (each y[j] is bound before the next is computed)
RECURSIVE ForwardSubst(_, _, _, _)
ForwardSubst(f, c, j, y) ==
    IF j > 2 THEN y
    ELSE CHOOSE res \in
           {ForwardSubst(f, c, j + 1, Append(y, v)) :
              v \in {IF j = 0 THEN c[0]
                     ELSE IF j = 1 THEN FSub(c[1], FMul(f.lu[<<1, 0>>], y[1]))
                     ELSE FSub(FSub(c[2], FMul(f.lu[<<2, 0>>], y[1])),
                               FMul(f.lu[<<2, 1>>], y[2]))}} : TRUE

\* the sum of U(j, t) z[t] over the columns t with j < t < r, taken off y[j]
RECURSIVE BackRow(_, _, _, _, _, _)
BackRow(f, r, j, t, z, acc) ==
    IF t >= r THEN acc
    ELSE CHOOSE res \in
           {BackRow(f, r, j, t + 1, z, v) : v \in {FSub(acc, FMul(f.lu[<<j, t>>], z[t]))}} : TRUE

\* triangularView<Upper>().solveInPlace on the leading r x r block, from row
\* r - 1 up to row 0; z is the function from the rows solved so far
RECURSIVE BackSubst(_, _, _, _, _)
BackSubst(f, r, y, j, z) ==
    IF j < 0 THEN z
    ELSE CHOOSE res \in
           {BackSubst(f, r, y, j - 1, [t \in (DOMAIN z) \cup {j} |-> IF t = j THEN v ELSE z[t]]) :
              v \in {FDiv(BackRow(f, r, j, j + 1, z, y[j + 1]), f.lu[<<j, j>>])}} : TRUE

\* solve(rhs) for one right-hand side column: c = P rhs, L y = c, U z = y on the
\* leading rank x rank block, and row colOf[j] of the result is z[j], the rest zero
LUSolveColumn(f, r, rhs) ==
    LET z == BackSubst(f, r, ForwardSubst(f, [j \in Idx3 |-> rhs[f.rowOf[j]]], 0, <<>>),
                       r - 1, <<>>)
    IN  [row \in Idx3 |->
           LET j == CHOOSE t \in Idx3 : f.colOf[t] = row
           IN  IF j >= r THEN Zero ELSE z[j]]

\* lu.inverse(): solve(Identity), as a column-major matrix; a rank of zero
\* gives the zero matrix
LUInverse(f) ==
    CHOOSE res \in
      {[n \in 1..9 |-> cols[((n - 1) \div 3) + 1][(n - 1) % 3]] :
         cols \in {<<LUSolveColumn(f, r, [j \in Idx3 |-> IF j = 0 THEN F(1) ELSE Zero]),
                     LUSolveColumn(f, r, [j \in Idx3 |-> IF j = 1 THEN F(1) ELSE Zero]),
                     LUSolveColumn(f, r, [j \in Idx3 |-> IF j = 2 THEN F(1) ELSE Zero])>> :
                   r \in {LURank(f)}}} : TRUE

(***************************************************************************)
(* multiply_matrices and invert_matrix                                     *)
(***************************************************************************)
ElementwiseProduct(a, b) == [n \in 1..9 |-> FMul(a[n], b[n])]
\* out = a * b
multiply_matrices(a, b) ==
    [n \in 1..9 |->
        LET r == (n - 1) % 3
            c == (n - 1) \div 3
        IN  FAdd(FAdd(FMul(Coeff(a, r, 0), Coeff(b, 0, c)), FMul(Coeff(a, r, 1), Coeff(b, 1, c))),
                 FMul(Coeff(a, r, 2), Coeff(b, 2, c)))]

DetBelowEpsilonNegated(det) == ~FGe(FAbs(det), MATRIX_INVERSE_EPSILON)
\* if (std::abs(det) < MATRIX_INVERSE_EPSILON)
DetBelowEpsilon(det) == FLt(FAbs(det), MATRIX_INVERSE_EPSILON)

NonInvertibleOutputZero == [n \in 1..9 |-> Zero]
\* out.setConstant(std::numeric_limits<float>::quiet_NaN())
NonInvertibleOutput == [n \in 1..9 |-> NaN]

\* invert_matrix once lu is factorised: det, the output matrix and the int returned
invert_matrix(lu) ==
    LET det == LUDeterminant(lu)
    IN  IF DetBelowEpsilon(det)
        THEN [det |-> det, out |-> NonInvertibleOutput, ret |-> 0]
        ELSE [det |-> det, out |-> LUInverse(lu), ret |-> 1]

\* one elimination step of the factorisation that invert_matrix starts with
FullPivLUStep ==
    /\ pc = "invert"
    /\ inv.lu.k < 3
    /\ inv' = [inv EXCEPT !.lu = LUStep(inv.lu)]
    /\ UNCHANGED <<pc, M, mem, pts_in, pts_out, num_points, i, regs, in0, wcount, rcount,
                   path, steps, hom>>

\* the rest of invert_matrix: the determinant, the guard and the inverse
InvertMatrix ==
    /\ pc = "invert"
    /\ inv.lu.k >= 3
    /\ LET res == invert_matrix(inv.lu)
       IN  inv' = [inv EXCEPT !.det = res.det, !.out = res.out, !.ret = res.ret]
    /\ pc' = "inverted"
    /\ UNCHANGED <<M, mem, pts_in, pts_out, num_points, i, regs, in0, wcount, rcount,
                   path, steps, hom>>

\* a call of multiply_matrices on inv.m and the inverse written, into inv.prod
MultiplyBack ==
    /\ pc = "inverted"
    /\ inv' = [inv EXCEPT !.prod = multiply_matrices(inv.m, inv.out)]
    /\ pc' = "multiplied"
    /\ UNCHANGED <<M, mem, pts_in, pts_out, num_points, i, regs, in0, wcount, rcount,
                   path, steps, hom>>

InvNext ==
    \/ FullPivLUStep
    \/ InvertMatrix
    \/ MultiplyBack

\* determinant: m.determinant() of a fixed 3x3 matrix, the cofactor expansion
\* along the first row
Det3Helper(m, a, b, c) ==
    FMul(Coeff(m, 0, a),
         FSub(FMul(Coeff(m, 1, b), Coeff(m, 2, c)), FMul(Coeff(m, 1, c), Coeff(m, 2, b))))
determinant(m) ==
    FAdd(FSub(Det3Helper(m, 0, 1, 2), Det3Helper(m, 1, 0, 2)), Det3Helper(m, 2, 0, 1))

\* Inputs of invert_matrix: small integer matrices at the scales 10^-e .. 10^e,
\* and matrices at and around the cases of the guard
MaxScaleExp == 4
Scaled(m, mant, ex) == [n \in 1..9 |-> FMul(m[n], Sci(mant, ex))]
Diag3(a, b, c) == Rows3(a, F(0), F(0), F(0), b, F(0), F(0), F(0), c)
BaseMatrices ==
    {Identity3,
     Rows3(F(2), F(1), F(0), F(1), F(3), F(1), F(0), F(1), F(2)),
     Rows3(F(0), F(1), F(0), F(0), F(0), F(1), F(1), F(0), F(0)),
     Rows3(F(1), F(2), F(0), F(0), F(1), F(0), F(0), F(0), F(1)),
     Rows3(F(-1), F(0), F(0), F(0), F(2), F(0), F(0), F(0), F(1)),
     Rows3(F(1), F(1), F(1), F(0), F(1), F(1), F(1), F(0), F(1))}
ScaledMatrices ==
    {Scaled(m, 1, ex) : m \in BaseMatrices, ex \in (-MaxScaleExp)..MaxScaleExp}
       \cup {Scaled(m, 5, -3) : m \in BaseMatrices}
SpecialMatrices ==
    {Diag3(Sci(1, -7), F(1), F(1)),
     Diag3(Sci(1, -8), F(1), F(1)),
     Diag3(Sci(-1, -8), F(1), F(1)),
     Diag3(Sci(-1, -7), F(1), F(1)),
     Diag3(F(1000), F(1000), Sci(1, -4)),
     Diag3(Sci(1, 20), Sci(1, 20), Sci(1, 20)),
     Diag3(F(0), F(0), F(0)),
     Rows3(F(1), F(2), F(3), F(1), F(2), F(3), F(0), F(1), F(4)),
     Rows3(F(1), F(2), F(3), F(2), F(4), F(6), F(3), F(6), F(9)),
     Diag3(NaN, F(1), F(1)),
     Diag3(F(1), F(1), NaN),
     Rows3(F(2), NaN, F(0), F(0), F(1), F(0), F(0), F(0), F(1)),
     Rows3(F(2), F(0), F(0), NaN, F(1), F(0), F(0), F(0), F(1)),
     Rows3(F(2), F(0), NaN, F(0), F(1), F(0), F(0), F(0), F(1)),
     Diag3(PInf, F(1), F(1)),
     Rows3(F(1), F(0), NInf, F(0), F(1), F(0), F(0), F(0), F(1))}
InvMatrices == ScaledMatrices \cup SpecialMatrices

InvInit ==
    /\ pc = "invert"
    /\ inv \in {[m |-> m, lu |-> FullPivLU(m), det |-> Zero, out |-> <<>>, ret |-> -1, prod |-> <<>>] :
                 m \in InvMatrices}
    /\ hom = NoHom
    /\ M = Identity3
    /\ num_points = 0
    /\ pts_in = 0
    /\ pts_out = 0
    /\ mem = [a \in Addr |-> Untouched]
    /\ in0 = <<>>
    /\ i = 0
    /\ regs = <<>>
    /\ wcount = [a \in Addr |-> 0]
    /\ rcount = [a \in Addr |-> 0]
    /\ path = <<>>
    /\ steps = 0

SpecInvert == InvInit /\ [][InvNext]_vars


(***************************************************************************)
(* Eigen::JacobiSVD<Matrix8f> (vendor/eigen-3.4.0), as solve_homography_svd *)
(* uses it. The system matrices drawn have no finite off-diagonal          *)
(* coefficient other than zero, and on these the sweeps apply no rotation. *)
(***************************************************************************)
Idx8 == 0..7
Coeff8(A, r, c) == A[8 * c + r + 1]
DiagA(d) == [n \in 1..64 |-> IF (n - 1) % 8 = (n - 1) \div 8 THEN d[((n - 1) % 8) + 1] ELSE Zero]

\* cwiseAbs().maxCoeff<PropagateNaN>(): NaN if a coefficient is NaN, else the
\* largest magnitude
RECURSIVE AbsMaxNaN(_, _, _)
AbsMaxNaN(A, n, best) ==
    IF n > Len(A) THEN best
    ELSE CHOOSE res \in
           {AbsMaxNaN(A, n + 1, nb) :
              nb \in {IF IsNaN(best) \/ IsNaN(A[n]) THEN NaN
                      ELSE IF FGt(FAbs(A[n]), best) THEN FAbs(A[n]) ELSE best}} : TRUE

\* tail(8 - i).maxCoeff(&pos): the first position from i on whose value no later
\* one exceeds
RECURSIVE MaxFrom(_, _, _)
MaxFrom(sv, n, best) ==
    IF n > 7 THEN best
    ELSE CHOOSE res \in
           {MaxFrom(sv, n + 1, nb) : nb \in {IF FGt(sv[n], sv[best]) THEN n ELSE best}} : TRUE

\* the sort of the singular values into decreasing order, the columns of U and
\* V swapped along (perm[i] is the column of the input that column i holds);
\* it stops at a largest remaining value of zero
RECURSIVE SortSV(_, _, _)
SortSV(sv, perm, n) ==
    IF n > 7 THEN [sv |-> sv, perm |-> perm, nonzero |-> 8]
    ELSE CHOOSE res \in
           {IF sv[pos] = Zero THEN [sv |-> sv, perm |-> perm, nonzero |-> n]
            ELSE SortSV([j \in Idx8 |-> sv[SwapIdx(j, n, pos)]],
                        [j \in Idx8 |-> perm[SwapIdx(j, n, pos)]], n + 1) :
              pos \in {MaxFrom(sv, n + 1, n)}} : TRUE

\* JacobiSVD<Matrix8f> svd(A, ComputeFullU | ComputeFullV)
JacobiSVD(A) ==
    CHOOSE res \in
      {IF ~IsFinite(scale)
       THEN [info |-> "InvalidInput", sv |-> <<>>, perm |-> <<>>, nonzero |-> 0, neg |-> <<>>]
       ELSE LET sc == IF scale = Zero THEN F(1) ELSE scale
                sorted == SortSV([j \in Idx8 |-> FMul(FAbs(FDiv(Coeff8(A, j, j), sc)), sc)],
                                 [j \in Idx8 |-> j], 0)
            IN  [info |-> "Success", sv |-> sorted.sv, perm |-> sorted.perm,
                 nonzero |-> sorted.nonzero,
                 neg |-> [j \in Idx8 |-> FLt(Coeff8(A, j, j), Zero)]] :
         scale \in {AbsMaxNaN(A, 1, Zero)}} : TRUE

\* the coefficients of matrixU() and matrixV()
MatrixU(svd, r, c) ==
    IF r = svd.perm[c] THEN (IF svd.neg[r] THEN F(-1) ELSE F(1)) ELSE Zero
MatrixV(svd, r, c) == IF r = svd.perm[c] THEN F(1) ELSE Zero

\* 8 * NumTraits<float>::epsilon(), the default threshold(), and
\* std::numeric_limits<float>::min()
SVDThreshold == Sci(95367, -11)
FltMin == Sci(11755, -42)

\* rank(): the singular values not less than max(sv[0] * threshold(), min())
RECURSIVE RankFrom(_, _, _)
RankFrom(svd, limit, n) ==
    IF n >= 0 /\ FLt(svd.sv[n], limit) THEN RankFrom(svd, limit, n - 1) ELSE n + 1
SVDRank(svd) ==
    LET pre == FMul(svd.sv[0], SVDThreshold)
    IN  RankFrom(svd, IF FGt(pre, FltMin) THEN pre ELSE FltMin, svd.nonzero - 1)

\* the sum over k in 0..(n - 1) of term[k], added in the order of k
RECURSIVE SumTo(_, _, _, _)
SumTo(term, n, k, acc) ==
    IF k >= n THEN acc
    ELSE CHOOSE res \in {SumTo(term, n, k + 1, v) : v \in {FAdd(acc, term[k])}} : TRUE

\* svd.solve(b) at the rank found: tmp = U.leftCols(rank).adjoint() * b,
\* tmp = S^-1 * tmp, x = V.leftCols(rank) * tmp
SVDSolveAt(svd, b, rank) ==
    CHOOSE res \in
      {[r \in Idx8 |-> SumTo([c \in Idx8 |-> FMul(MatrixV(svd, r, c), tmp[c])], rank, 0, Zero)] :
         tmp \in {[c \in 0..(rank - 1) |->
                    FMul(FDiv(F(1), svd.sv[c]),
                         SumTo([r \in Idx8 |-> FMul(MatrixU(svd, r, c), b[r])], 8, 0, Zero))]}} : TRUE
SVDSolve(svd, b) ==
    CHOOSE res \in {SVDSolveAt(svd, b, rank) : rank \in {SVDRank(svd)}} : TRUE

(***************************************************************************)
(* solve_homography_svd                                                    *)
(***************************************************************************)
AllNaN8 == [j \in Idx8 |-> NaN]

\* (svd.singularValues().array().abs() < threshold).any(), with
\* threshold = MATRIX_SVD_EPSILON * svd.singularValues().maxCoeff()
BelowThreshold(svd) ==
    LET threshold == FMul(MATRIX_SVD_EPSILON, svd.sv[MaxFrom(svd.sv, 1, 0)])
    IN  \E j \in Idx8 : FLt(FAbs(svd.sv[j]), threshold)

\* solve_homography_svd once svd is computed: the vector left in x and the bool returned
solve_homography_svd(svd, b) ==
    IF svd.info # "Success" THEN [x |-> AllNaN8, ret |-> FALSE]
    ELSE IF BelowThreshold(svd) THEN [x |-> AllNaN8, ret |-> FALSE]
    ELSE CHOOSE res \in
           {IF \E j \in Idx8 : IsNaN(x[j]) THEN [x |-> x, ret |-> FALSE]
            ELSE [x |-> x, ret |-> TRUE] : x \in {SVDSolve(svd, b)}} : TRUE

\* the decomposition solve_homography_svd starts with
ComputeSVD ==
    /\ pc = "svd"
    /\ hom' = [hom EXCEPT !.svd = JacobiSVD(hom.A)]
    /\ pc' = "solve"
    /\ UNCHANGED <<M, mem, pts_in, pts_out, num_points, i, regs, in0, wcount, rcount,
                   path, steps, inv>>

\* the rest of solve_homography_svd: the checks, the solve and the return
SolveHomography ==
    /\ pc = "solve"
    /\ LET res == solve_homography_svd(hom.svd, hom.b)
       IN  hom' = [hom EXCEPT !.x = res.x, !.ret = IF res.ret THEN "true" ELSE "false"]
    /\ pc' = "solved"
    /\ UNCHANGED <<M, mem, pts_in, pts_out, num_points, i, regs, in0, wcount, rcount,
                   path, steps, inv>>

HomNext ==
    \/ ComputeSVD
    \/ SolveHomography

\* Inputs of solve_homography_svd
Const8(v) == [j \in 1..8 |-> v]
Last8(v, t) == [j \in 1..8 |-> IF j = 8 THEN t ELSE v]
First8(t, v) == [j \in 1..8 |-> IF j = 1 THEN t ELSE v]
HomDiagonals ==
    {Const8(F(1)), Const8(F(2)), Const8(Sci(1, -30)), Const8(Zero), Const8(Sci(1, -40)),
     Last8(F(1), Zero), Last8(F(1), Sci(1, -7)), Last8(F(1), Sci(1, -6)),
     Last8(F(1), Sci(1, -3)), Last8(F(1), F(-2)), Last8(F(1), F(5)),
     First8(Zero, F(1)), First8(Sci(1, -40), Zero), First8(Sci(1, 30), Sci(1, -20)),
     <<F(1), F(2), F(3), F(4), F(5), F(6), F(7), F(8)>>,
     <<F(-3), F(2), F(5), F(1), F(4), F(8), F(7), F(6)>>,
     First8(NaN, F(1)), Last8(F(1), PInf)}
HomMatrices ==
    {DiagA(d) : d \in HomDiagonals}
       \cup {[DiagA(Const8(F(1))) EXCEPT ![9] = NaN], [DiagA(Const8(F(1))) EXCEPT ![2] = NInf]}
HomRightSides ==
    {[j \in Idx8 |-> F(j + 1)],
     [j \in Idx8 |-> IF j = 0 THEN Sci(1, 10) ELSE F(1)],
     [j \in Idx8 |-> Zero],
     [j \in Idx8 |-> IF j = 3 THEN NaN ELSE F(1)],
     [j \in Idx8 |-> IF j = 0 THEN PInf ELSE Zero],
     [j \in Idx8 |-> IF j = 7 THEN Sci(3, 38) ELSE F(-1)]}

HomInit ==
    /\ pc = "svd"
    /\ hom \in {[A |-> A, b |-> b, svd |-> <<>>, x |-> <<>>, ret |-> "none"] :
                  A \in HomMatrices, b \in HomRightSides}
    /\ inv = NoInv
    /\ M = Identity3
    /\ num_points = 0
    /\ pts_in = 0
    /\ pts_out = 0
    /\ mem = [a \in Addr |-> Untouched]
    /\ in0 = <<>>
    /\ i = 0
    /\ regs = <<>>
    /\ wcount = [a \in Addr |-> 0]
    /\ rcount = [a \in Addr |-> 0]
    /\ path = <<>>
    /\ steps = 0

SpecSolve == HomInit /\ [][HomNext]_vars

(***************************************************************************)
(* Properties of transform_points_batch                                    *)
(***************************************************************************)
InPlace == pts_out = pts_in
NPts == Max0(num_points)
PointIn(p) == <<in0[2 * p], in0[2 * p + 1]>>
PointOut(p) == <<mem[pts_out + 2 * p], mem[pts_out + 2 * p + 1]>>

\* the homogeneous coordinates the specification gives for a point
HomX(m, x, y) == FAdd(FAdd(FMul(Coeff(m, 0, 0), x), FMul(Coeff(m, 0, 1), y)), Coeff(m, 0, 2))
HomY(m, x, y) == FAdd(FAdd(FMul(Coeff(m, 1, 0), x), FMul(Coeff(m, 1, 1), y)), Coeff(m, 1, 2))
HomW(m, x, y) == FAdd(FAdd(FMul(Coeff(m, 2, 0), x), FMul(Coeff(m, 2, 1), y)), Coeff(m, 2, 2))

\* the projection policy: (NaN, NaN) if |W| < SVD_EPS, otherwise (X / W, Y / W)
Projected(m, x, y) ==
    LET W == HomW(m, x, y)
    IN  IF FLt(FAbs(W), MATRIX_SVD_EPSILON) THEN <<NaN, NaN>>
        ELSE <<FDiv(HomX(m, x, y), W), FDiv(HomY(m, x, y), W)>>

\* C3: when the call has returned, every output slot i < N holds (NaN, NaN) if
\* |W_i| < SVD_EPS and (X_i / W_i, Y_i / W_i) otherwise, with X_i, Y_i and W_i
\* computed from M and input point i alone, whatever the other points of the
\* batch and of its lane group are.
C3_PerPointPolicy ==
    pc = "done" =>
        \A p \in 0..(NPts - 1) : PointOut(p) = Projected(M, PointIn(p)[1], PointIn(p)[2])

\* a batch whose SIMD group and whose scalar tail each hold a point with W = 0
\* next to a point that is projected to finite coordinates
C3_Witness ==
    /\ pc = "done"
    /\ num_points >= 6
    /\ M = MatProjective
    /\ \E p, q \in 0..3 :
          /\ HomW(M, PointIn(p)[1], PointIn(p)[2]) = Zero
          /\ PointOut(p) = <<NaN, NaN>>
          /\ IsFinite(PointOut(q)[1]) /\ IsFinite(PointOut(q)[2])
    /\ \E p, q \in 4..(num_points - 1) :
          /\ HomW(M, PointIn(p)[1], PointIn(p)[2]) = Zero
          /\ PointOut(p) = <<NaN, NaN>>
          /\ IsFinite(PointOut(q)[1]) /\ IsFinite(PointOut(q)[2])

\* what the SIMD loop computes for the eight floats it has loaded
SimdOfRegs == Concat(SimdBody(M, [l \in Lanes |-> regs[l]], [l \in Lanes |-> regs[l + 4]]))
\* what the SIMD loop computes in its first lane for one point
SimdOfPoint(x, y) ==
    Concat(SimdBody(M, <<x, y, x, y>>, <<x, y, x, y>>))

\* C4: for the same M and the same point, the vectorized loop and the scalar loop
\* compute the same pair (NaN in the one exactly where NaN in the other): each
\* lane of a loaded group agrees with the scalar body on that lane's point, and
\* each point of the tail agrees with the vector body run on it.
C4_PathsAgree ==
    /\ pc = "simd_store" =>
          LET v == SimdOfRegs
          IN  \A l \in Lanes :
                 <<v[2 * l - 1], v[2 * l]>> = ScalarBody(M, regs[2 * l - 1], regs[2 * l])
    /\ pc = "scalar_store" =>
          LET v == SimdOfPoint(regs[1], regs[2])
          IN  <<v[1], v[2]>> = ScalarBody(M, regs[1], regs[2])

\* a loaded group with one lane exactly on the threshold and another lane off it,
\* and one whose W is NaN, infinite, or zero
C4_Witness ==
    /\ pc = "simd_store"
    /\ \/ /\ M = MatThreshold
          /\ \E l, k \in Lanes :
                /\ FAbs(HomW(M, regs[2 * l - 1], regs[2 * l])) = MATRIX_SVD_EPSILON
                /\ FAbs(HomW(M, regs[2 * k - 1], regs[2 * k])) # MATRIX_SVD_EPSILON
                /\ ~IsNaN(SimdOfRegs[2 * l])

\* C5: with the identity matrix every output float equals the input float at
\* the same index, for every batch size.
C5_Identity ==
    (pc = "done" /\ M = Identity3) =>
        \A a \in 0..(2 * NPts - 1) : mem[pts_out + a] = in0[a]

\* an identity call over one full lane group and a tail, on distinct points
C5_Witness ==
    /\ pc = "done"
    /\ M = Identity3
    /\ num_points = 5
    /\ pts_out # pts_in
    /\ PointIn(0) # PointIn(1)
    /\ PointIn(3) # PointIn(4)
    /\ \A a \in 0..9 : mem[pts_out + a] = in0[a]

\* the points the vectorized loop is to handle: those below N - (N mod 4)
SimdPoints == IF num_points <= 0 THEN 0 ELSE num_points - (num_points % 4)
StepsOfCall == 2 * (SimdPoints \div 4) + 2 * (NPts - SimdPoints) + 2

\* the guards of the six steps: whether one of them can be taken
CanStep ==
    \/ pc = "simd" /\ SimdCond
    \/ pc = "simd_store"
    \/ pc = "simd" /\ ~SimdCond
    \/ pc = "scalar" /\ ScalarCond
    \/ pc = "scalar_store"
    \/ pc = "scalar" /\ ~ScalarCond

\* C9: the call terminates (a step can be taken until it returns, every step
\* is counted, and the count never passes a number fixed by N, which it has
\* reached at the return); the vectorized loop handles
\* exactly the points below N - (N mod 4), the scalar loop the 0..3 others;
\* output floats 0..2N-1 are each written once, no other float is written, no
\* float outside the input floats 0..2N-1 is read, and nothing is touched for
\* N <= 0.
C9_LoopBounds ==
    /\ pc # "done" => CanStep
    /\ steps <= StepsOfCall
    /\ \A a \in Addr :
          /\ wcount[a] <= 1
          /\ (wcount[a] > 0 => a >= pts_out /\ a < pts_out + 2 * NPts)
          /\ (rcount[a] > 0 => a >= pts_in /\ a < pts_in + 2 * NPts)
          /\ (wcount[a] = 0 => mem[a] = (IF a < 2 * NPts THEN in0[a] ELSE Untouched))
    /\ \A p \in DOMAIN path :
          /\ path[p] = "simd" => p < SimdPoints
          /\ path[p] = "scalar" => p >= SimdPoints
    /\ pc = "done" =>
          /\ steps = StepsOfCall
          /\ NPts - SimdPoints \in 0..3
          /\ \A p \in DOMAIN path :
                path[p] = (IF p < SimdPoints THEN "simd" ELSE "scalar")
          /\ \A a \in Addr :
                wcount[a] = (IF a >= pts_out /\ a < pts_out + 2 * NPts THEN 1 ELSE 0)

\* a returned call that ran both loops, its scalar loop three times
C9_Witness ==
    /\ pc = "done"
    /\ num_points = 7
    /\ path[3] = "simd" /\ path[4] = "scalar" /\ path[6] = "scalar"
    /\ wcount[pts_out + 13] = 1
    /\ wcount[pts_out + 14] = 0

\* the output of a call on the input in0 with an output buffer apart from it:
\* the loops' bodies applied to the floats as they were at the call
RECURSIVE DisjointOutput(_)
DisjointOutput(p) ==
    IF p >= NPts THEN <<>>
    ELSE IF p < num_points_simd(num_points)
    THEN LET v == Concat(SimdBody(M, [l \in Lanes |-> in0[2 * p + l - 1]],
                                     [l \in Lanes |-> in0[2 * p + l + 3]]))
         IN  [j \in 1..8 |-> v[j]] \o DisjointOutput(p + 4)
    ELSE ScalarBody(M, in0[2 * p], in0[2 * p + 1]) \o DisjointOutput(p + 1)

\* C10: called in place (points_out_ptr = points_in_ptr), the call leaves in the
\* buffer what a call with a separate output buffer leaves in its output: the
\* floats an iteration has loaded are the floats of the call's input, none
\* overwritten by an earlier iteration, and are loaded before the iteration
\* stores.
C10_InPlace ==
    InPlace =>
        /\ pc = "simd_store" => \A j \in 1..8 : regs[j] = in0[2 * i + j - 1]
        /\ pc = "scalar_store" => \A j \in 1..2 : regs[j] = in0[2 * i + j - 1]
        /\ \A a \in Addr : wcount[a] > 0 => a < pts_in + 2 * i
        /\ pc = "done" =>
              LET ref == DisjointOutput(0)
              IN  \A a \in 0..(2 * NPts - 1) : mem[pts_in + a] = ref[a + 1]

\* an in-place call over a lane group and a tail that changed every float
C10_Witness ==
    /\ pc = "done"
    /\ InPlace
    /\ num_points = 6
    /\ M = MatThird
    /\ \A a \in 0..11 : mem[pts_in + a] # in0[a]

(***************************************************************************)
(* Properties of invert_matrix and multiply_matrices                       *)
(***************************************************************************)
Inverted == pc \in {"inverted", "multiplied"}
AllNaN9(m) == \A n \in 1..9 : IsNaN(m[n])
AllFinite9(m) == \A n \in 1..9 : IsFinite(m[n])
\* det is the determinant of the finished factorisation of the input
DetFromLU == inv.lu.k = 3 /\ inv.det = LUDeterminant(inv.lu)

\* C2: with det(A) taken from the pivoted LU decomposition of A, whenever
\* |det(A)| < 1e-7 is true invert_matrix returns 0 and every coefficient of the
\* output matrix is NaN.
C2_NonInvertible ==
    Inverted =>
       /\ DetFromLU
       /\ FLt(FAbs(inv.det), Sci(1, -7)) =>
             (inv.ret = 0 /\ Len(inv.out) = 9 /\ AllNaN9(inv.out))

\* a call that failed on a finite determinant other than zero, with its NaN output
C2_Witness ==
    /\ pc = "inverted"
    /\ IsFinite(inv.det) /\ inv.det # Zero
    /\ FLt(FAbs(inv.det), Sci(1, -7))
    /\ inv.ret = 0 /\ AllNaN9(inv.out)

RECURSIVE SumSq(_, _, _)
SumSq(m, n, acc) ==
    IF n > Len(m) THEN acc
    ELSE CHOOSE res \in {SumSq(m, n + 1, v) : v \in {FAdd(acc, FMul(m[n], m[n]))}} : TRUE
Others(j) == IF j = 0 THEN <<1, 2>> ELSE IF j = 1 THEN <<0, 2>> ELSE <<0, 1>>
Minor(m, r, c) ==
    FSub(FMul(Coeff(m, Others(r)[1], Others(c)[1]), Coeff(m, Others(r)[2], Others(c)[2])),
         FMul(Coeff(m, Others(r)[1], Others(c)[2]), Coeff(m, Others(r)[2], Others(c)[1])))
Adjugate(m) ==
    [n \in 1..9 |->
        LET r == (n - 1) % 3
            c == (n - 1) \div 3
        IN  IF (r + c) % 2 = 0 THEN Minor(m, c, r) ELSE FNeg(Minor(m, c, r))]
CondSq(m) ==
    FDiv(FMul(SumSq(m, 1, Zero), SumSq(Adjugate(m), 1, Zero)),
         FMul(determinant(m), determinant(m)))
\* well-conditioned: invertible with a Frobenius condition number of at most 100
CondBoundSq == 10000
WellConditioned(m) ==
    /\ AllFinite9(m)
    /\ determinant(m) # Zero
    /\ IsFinite(CondSq(m))
    /\ ~FGt(CondSq(m), F(CondBoundSq))

\* C6 as stated: for every well-conditioned invertible A, of small overall scale
\* included, invert_matrix returns success and A times the inverse is the identity.
C6_AsStated ==
    (pc = "multiplied" /\ WellConditioned(inv.m)) =>
       (inv.ret = 1 /\ inv.prod = Identity3)

\* C6: for every well-conditioned invertible A with |det(A)| >= 1e-7,
\* invert_matrix returns success and multiply_matrices(A, inverse) is the
\* identity; a well-conditioned A with |det(A)| < 1e-7, such as 0.001 I, is
\* reported non-invertible.
C6_RoundTrip ==
    (pc = "multiplied" /\ WellConditioned(inv.m)) =>
       IF FGe(FAbs(determinant(inv.m)), Sci(1, -7))
       THEN inv.ret = 1 /\ inv.prod = Identity3
       ELSE inv.ret = 0 /\ AllNaN9(inv.out)

\* a round trip through a matrix that is not diagonal and is scaled down
C6_Witness ==
    /\ pc = "multiplied"
    /\ WellConditioned(inv.m)
    /\ Coeff(inv.m, 0, 1) # Zero
    /\ FLt(FAbs(determinant(inv.m)), Sci(1, -3))
    /\ inv.ret = 1
    /\ inv.prod = Identity3

(***************************************************************************)
(* Properties of solve_homography_svd                                      *)
(***************************************************************************)
\* C1: whenever solve_homography_svd returns false, all 8 elements of x are NaN
\* on return, whichever of the three failure exits was taken.
C1_FailureIsAllNaN ==
    (pc = "solved" /\ hom.ret = "false") => \A j \in Idx8 : IsNaN(hom.x[j])

\* a finite diagonal system matrix with a singular value equal to zero
RankDeficient(A) ==
    /\ \A n \in 1..64 : IsFinite(A[n])
    /\ \A r \in Idx8 : \A c \in Idx8 : r # c => Coeff8(A, r, c) = Zero
    /\ \E j \in Idx8 : Coeff8(A, j, j) = Zero

\* C7: for every rank-deficient system matrix, the all-zero matrix included,
\* solve_homography_svd returns false and leaves x all NaN.
C7_RankDeficientFails ==
    (pc = "solved" /\ RankDeficient(hom.A)) =>
       (hom.ret = "false" /\ \A j \in Idx8 : IsNaN(hom.x[j]))

=============================================================================
